---- MODULE Spec2Model ----
(***************************************************************************)
(* URL-shortening microservice: the in-memory shortcode registry           *)
(* (UrlModel), the validators (UrlHelpers) and the three Express handlers  *)
(* that drive it, plus the hourly cleanup timer.                           *)
(*                                                                         *)
(* Every handler is an `async` function without a single `await`, and the  *)
(* timer callback is synchronous, so under Node's run-to-completion event  *)
(* loop each of them is one atomic step: concurrent requests interleave    *)
(* only at handler granularity.  Strings the code inspects character by    *)
(* character (shortcodes, path segments) are sequences of one-character    *)
(* strings.  The clock is the wall clock in ticks; a handler that reads    *)
(* the clock twice may see it advance between the two readings.            *)
(***************************************************************************)
EXTENDS Integers, Sequences, FiniteSets

VARIABLES
  urls,       \* UrlModel.urls: shortcode -> urlData
  analytics,  \* UrlModel.analytics: shortcode -> {totalClicks, clicks}
  now,        \* the wall clock (new Date()), in ticks
  resp,       \* the response of the callback that has just run, until it is sent
  created201, \* history: POSTs answered 201 per shortcode since it was last absent
  served302,  \* history: redirects answered 302 per shortcode since its insertion
  lastCleanup \* history: the latest sweeps in a row (the clock reading of the
              \* last, whether it was the first, the totalClicks of what they
              \* removed), until a request is served; an accepted create
              \* still shows it while its response is pending

vars == <<urls, analytics, now, resp, created201, served302, lastCleanup>>

---------------------------------------------------------------------------
\* Bounds of the model

\* the clock stops advancing at MaxTime
MaxTime == 2
\* clock ticks per minute (the code's 60 * 1000 ms, scaled)
TicksPerMinute == 1
\* clicks held by the registry at one time
MaxClicks == 2
\* ticks the clock may advance between two readings inside one handler
MaxSkew == 1

---------------------------------------------------------------------------
\* Program constants

DefaultValidity == 30
MinValidity == 1
MaxValidity == 525600
MinShortcodeLen == 3
MaxShortcodeLen == 20
GeneratedLen == 6
MaxAttempts == 10

---------------------------------------------------------------------------
\* Strings as character sequences

Digits == {"0", "1", "2", "3", "4", "5", "6", "7", "8", "9"}
Lower == {"a", "b", "c", "d", "e", "f", "g", "h", "i", "j", "k", "l", "m",
          "n", "o", "p", "q", "r", "s", "t", "u", "v", "w", "x", "y", "z"}
Upper == {"A", "B", "C", "D", "E", "F", "G", "H", "I", "J", "K", "L", "M",
          "N", "O", "P", "Q", "R", "S", "T", "U", "V", "W", "X", "Y", "Z"}
\* the alphabet of generateShortcode and the class [a-zA-Z0-9]
alphabet == Digits \cup Upper \cup Lower

sAbc123 == <<"a", "b", "c", "1", "2", "3">>
sHealth == <<"h", "e", "a", "l", "t", "h">>
sAb == <<"a", "b">>
sBadChar == <<"a", "-", "c", "d">>
\* one character more than a shortcode may have
sTooLong == [i \in 1..(MaxShortcodeLen + 1) |-> "1"]
sShorturls == <<"s", "h", "o", "r", "t", "u", "r", "l", "s">>
sApi == <<"a", "p", "i">>

\* an absent or empty body field (undefined and "" are both falsy)
Absent == <<>>

---------------------------------------------------------------------------
\* Values the requests are drawn from

\* a URL as `new URL()` and validator.isURL see it: protocol and host labels
uExample == [protocol |-> "https", hostname |-> <<"example", "com">>]
uInternal == [protocol |-> "http", hostname |-> <<"10", "0", "0", "1">>]
uLocalhost == [protocol |-> "http", hostname |-> <<"localhost">>]
uNotAUrl == [protocol |-> "", hostname |-> <<"not-a-url">>]
NoUrl == [protocol |-> "", hostname |-> <<>>]

ReqUrls == {NoUrl, uNotAUrl, uLocalhost, uExample, uInternal}

\* the validity field: Absent, or <<n>> for the number n
ReqValidities == {Absent, <<0>>, <<-1>>, <<1>>, <<MaxValidity + 1>>}

\* the shortcode field of a create, and the :shortcode parameter of a GET
ReqShortcodes == {Absent, sAb, sBadChar, sTooLong, sAbc123, sHealth}
ParamShortcodes == {sAb, sBadChar, sTooLong, sAbc123, sHealth}

\* what nanoid may return (any 6 characters of the alphabet; two of them here)
GenCodes == {c \in {sAbc123, sHealth} : Len(c) = GeneratedLen}

\* the candidates one create draws from the generator, in order: MaxAttempts + 1
\* of them, the first k equal to x and the rest equal to y, so that the first
\* free one comes first, second, last within the attempts, or too late
CandidateRuns ==
  {[i \in 1..(MaxAttempts + 1) |-> IF i <= k THEN x ELSE y] :
     k \in {0, 1, MaxAttempts - 1, MaxAttempts}, x \in GenCodes, y \in GenCodes}

\* the generator is consulted only when the body names no shortcode
CandidatesFor(body) ==
  IF body.shortcode = Absent THEN CandidateRuns
  ELSE {[i \in 1..(MaxAttempts + 1) |-> sAbc123]}

\* a client: its address and the headers the redirect handler reads
cLocal == [ip |-> <<"127", "0", "0", "1">>, userAgent |-> "", referer |-> ""]
cPublic == [ip |-> <<"8", "8", "8", "8">>, userAgent |-> "curl/8",
            referer |-> "https://ref.example/page"]
Clients == {cPublic}

---------------------------------------------------------------------------
\* UrlHelpers (src/utils/helpers.js)

\* (mutant) the pattern without its anchors, /[a-zA-Z0-9]{3,20}/: any string
\* that holds three letters or digits in a row passes
isValidShortcode_unanchored(shortcode) ==
  \E i \in 1..Len(shortcode) :
    /\ i + MinShortcodeLen - 1 <= Len(shortcode)
    /\ \A j \in i..(i + MinShortcodeLen - 1) : shortcode[j] \in alphabet

\* isValidShortcode: /^[a-zA-Z0-9]{3,20}$/.test(shortcode)
isValidShortcode(shortcode) ==
  /\ Len(shortcode) >= MinShortcodeLen
  /\ Len(shortcode) <= MaxShortcodeLen
  /\ \A i \in 1..Len(shortcode) : shortcode[i] \in alphabet

NumericLabels == {"0", "1", "8", "10", "127", "168", "192"}
TldLabels == {"com"}

\* validator.isURL with protocols http/https, require_protocol, require_host,
\* require_valid_protocol and the library's default require_tld: the host is
\* an IPv4 address or a domain name ending in a top-level domain
isURL(url) ==
  /\ url.protocol \in {"http", "https"}
  /\ url.hostname # <<>>
  /\ \/ /\ Len(url.hostname) = 4
        /\ \A i \in 1..4 : url.hostname[i] \in NumericLabels
     \/ /\ Len(url.hostname) >= 2
        /\ url.hostname[Len(url.hostname)] \in TldLabels

\* the hosts isValidUrl only logs a warning for
isInternalHost(hostname) ==
  \/ hostname = <<"localhost">>
  \/ hostname = <<"127", "0", "0", "1">>
  \/ (Len(hostname) >= 3 /\ hostname[1] = "192" /\ hostname[2] = "168")
  \/ (Len(hostname) >= 2 /\ hostname[1] = "10")

\* isValidUrl: the internal-host test changes nothing but the log
isValidUrl(url) == isURL(url)

\* a JSON value of the validity field is a number <<n>>, or a string (its
\* characters) that Number() turns into NaN
vAbc == <<"a", "b", "c">>
isNaN(v) == Len(v) # 1

\* new Date(NaN), the Invalid Date: it is neither before nor after any date,
\* and its toISOString() throws a RangeError
InvalidDate == -1
RangeError == [isError |-> TRUE]

\* date comparisons (a > b, a <= b): false when either side is Invalid Date
After(a, b) == a # InvalidDate /\ b # InvalidDate /\ a > b
NotAfter(a, b) == a # InvalidDate /\ b # InvalidDate /\ a <= b

\* calculateExpiryDate, the clock reading `at`: validityMinutes is the JSON
\* value, the check of the default has no effect on NaN
calculateExpiryDate(validityMinutes, at) ==
  IF isNaN(validityMinutes) THEN InvalidDate
  ELSE LET v == IF validityMinutes[1] = 0 \/ validityMinutes[1] < 1
                THEN DefaultValidity ELSE validityMinutes[1]
       IN at + v * TicksPerMinute

LocalLocation ==
  [country |-> "Local", region |-> "Local", city |-> "Local", timezone |-> "TZ"]
UnknownLocation ==
  [country |-> "Unknown", region |-> "Unknown", city |-> "Unknown",
   timezone |-> "Unknown"]

\* getLocationFromIP: loopback and private ranges are "Local"; the addresses
\* of the model are not in the geoip database
getLocationFromIP(ip) ==
  IF \/ ip = <<"127", "0", "0", "1">>
     \/ ip = <<"::1">>
     \/ (Len(ip) >= 3 /\ ip[1] = "192" /\ ip[2] = "168")
     \/ (Len(ip) >= 2 /\ ip[1] = "10")
  THEN LocalLocation
  ELSE UnknownLocation

\* extractReferrer: "direct" without header, the hostname of a header that
\* parses as a URL, "unknown" otherwise
extractReferrer(referer) ==
  IF referer = "" THEN "direct"
  ELSE IF referer = "https://ref.example/page" THEN "ref.example"
  ELSE "unknown"

---------------------------------------------------------------------------
\* UrlModel (src/models/UrlModel.js).  m is the pair of maps [urls, analytics];
\* an operation returns the maps it leaves behind and its return value.

null == [isNull |-> TRUE]

\* Map.prototype.set and Map.prototype.delete
MapSet(map, key, value) ==
  [k \in (DOMAIN map) \cup {key} |-> IF k = key THEN value ELSE map[k]]
MapDelete(map, keys) ==
  [k \in (DOMAIN map) \ keys |-> map[k]]

\* create(shortcode, originalUrl, expiryDate, createdAt = new Date()): both
\* entries are set, then expiryDate.toISOString() is called for the log line
create(m, shortcode, originalUrl, expiryDate, createdAt) ==
  LET urlData == [shortcode |-> shortcode, originalUrl |-> originalUrl,
                  createdAt |-> createdAt, expiryDate |-> expiryDate,
                  isActive |-> TRUE]
  IN [urls |-> MapSet(m.urls, shortcode, urlData),
      analytics |-> MapSet(m.analytics, shortcode,
                           [totalClicks |-> 0, clicks |-> <<>>]),
      ret |-> IF expiryDate = InvalidDate THEN RangeError ELSE urlData]

\* (mutant) a lookup that already treats the instant of expiry as expired
findByShortcode_expiredAtExpiry(m, shortcode, at) ==
  IF shortcode \notin DOMAIN m.urls THEN null
  ELSE IF at >= m.urls[shortcode].expiryDate THEN null
  ELSE m.urls[shortcode]

\* findByShortcode(shortcode), the clock reading `at`
findByShortcode(m, shortcode, at) ==
  IF shortcode \notin DOMAIN m.urls THEN null
  ELSE IF After(at, m.urls[shortcode].expiryDate) THEN null
  ELSE m.urls[shortcode]

\* (mutant) an existence check that never finds the shortcode
exists_never(m, shortcode) == FALSE

\* (mutant) an existence check that overlooks the records that have expired
\* by the present clock
exists_unlessExpired(m, shortcode) ==
  /\ shortcode \in DOMAIN m.urls
  /\ now <= m.urls[shortcode].expiryDate

\* exists(shortcode)
exists(m, shortcode) == shortcode \in DOMAIN m.urls

\* (mutant) a recordClick that reports success without recording
recordClick_dropped(m, shortcode, clickData, at) ==
  [urls |-> m.urls, analytics |-> m.analytics,
   ret |-> shortcode \in DOMAIN m.analytics]

\* (mutant) a recordClick that appends the click but does not count it
recordClick_uncounted(m, shortcode, clickData, at) ==
  IF shortcode \notin DOMAIN m.analytics
  THEN [urls |-> m.urls, analytics |-> m.analytics, ret |-> FALSE]
  ELSE [urls |-> m.urls,
        analytics |-> MapSet(m.analytics, shortcode,
                             [totalClicks |-> m.analytics[shortcode].totalClicks,
                              clicks |-> Append(m.analytics[shortcode].clicks,
                                                [timestamp |-> at,
                                                 ip |-> clickData.ip,
                                                 userAgent |-> clickData.userAgent,
                                                 referrer |-> clickData.referrer,
                                                 location |-> clickData.location])]),
        ret |-> TRUE]

\* (mutant) a recordClick that writes back an entry built from a stale, empty
\* copy of the analytics: the earlier clicks are lost
recordClick_lostUpdate(m, shortcode, clickData, at) ==
  IF shortcode \notin DOMAIN m.analytics
  THEN [urls |-> m.urls, analytics |-> m.analytics, ret |-> FALSE]
  ELSE [urls |-> m.urls,
        analytics |-> MapSet(m.analytics, shortcode,
                             [totalClicks |-> 1,
                              clicks |-> <<[timestamp |-> at,
                                            ip |-> clickData.ip,
                                            userAgent |-> clickData.userAgent,
                                            referrer |-> clickData.referrer,
                                            location |-> clickData.location]>>]),
        ret |-> TRUE]

\* (mutant) a recordClick that refuses a click once the record has expired
recordClick_checksExpiry(m, shortcode, clickData, at) ==
  IF shortcode \notin DOMAIN m.analytics
  THEN [urls |-> m.urls, analytics |-> m.analytics, ret |-> FALSE]
  ELSE IF shortcode \in DOMAIN m.urls /\ at > m.urls[shortcode].expiryDate
  THEN [urls |-> m.urls, analytics |-> m.analytics, ret |-> FALSE]
  ELSE [urls |-> m.urls,
        analytics |-> MapSet(m.analytics, shortcode,
                             [totalClicks |-> m.analytics[shortcode].totalClicks + 1,
                              clicks |-> Append(m.analytics[shortcode].clicks,
                                                [timestamp |-> at,
                                                 ip |-> clickData.ip,
                                                 userAgent |-> clickData.userAgent,
                                                 referrer |-> clickData.referrer,
                                                 location |-> clickData.location])]),
        ret |-> TRUE]

\* (mutant) a recordClick that also renews the record: the expiry slides to
\* the default validity after the click
recordClick_renews(m, shortcode, clickData, at) ==
  IF shortcode \notin DOMAIN m.analytics
  THEN [urls |-> m.urls, analytics |-> m.analytics, ret |-> FALSE]
  ELSE [urls |-> MapSet(m.urls, shortcode,
                        [m.urls[shortcode] EXCEPT
                           !.expiryDate = at + DefaultValidity * TicksPerMinute]),
        analytics |-> MapSet(m.analytics, shortcode,
                             [totalClicks |-> m.analytics[shortcode].totalClicks + 1,
                              clicks |-> Append(m.analytics[shortcode].clicks,
                                                [timestamp |-> at,
                                                 ip |-> clickData.ip,
                                                 userAgent |-> clickData.userAgent,
                                                 referrer |-> clickData.referrer,
                                                 location |-> clickData.location])]),
        ret |-> TRUE]

\* (mutant) a recordClick that puts the new click in front (unshift for push)
recordClick_prepends(m, shortcode, clickData, at) ==
  IF shortcode \notin DOMAIN m.analytics
  THEN [urls |-> m.urls, analytics |-> m.analytics, ret |-> FALSE]
  ELSE [urls |-> m.urls,
        analytics |-> MapSet(m.analytics, shortcode,
                             [totalClicks |-> m.analytics[shortcode].totalClicks + 1,
                              clicks |-> <<[timestamp |-> at,
                                            ip |-> clickData.ip,
                                            userAgent |-> clickData.userAgent,
                                            referrer |-> clickData.referrer,
                                            location |-> clickData.location]>>
                                         \o m.analytics[shortcode].clicks]),
        ret |-> TRUE]

\* (mutant) a recordClick that opens an analytics entry when there is none
recordClick_upserts(m, shortcode, clickData, at) ==
  LET entry == IF shortcode \in DOMAIN m.analytics THEN m.analytics[shortcode]
               ELSE [totalClicks |-> 0, clicks |-> <<>>]
  IN [urls |-> m.urls,
      analytics |-> MapSet(m.analytics, shortcode,
                           [totalClicks |-> entry.totalClicks + 1,
                            clicks |-> Append(entry.clicks,
                                              [timestamp |-> at,
                                               ip |-> clickData.ip,
                                               userAgent |-> clickData.userAgent,
                                               referrer |-> clickData.referrer,
                                               location |-> clickData.location])]),
      ret |-> shortcode \in DOMAIN m.analytics]

\* recordClick(shortcode, clickData), the clock reading `at`
recordClick(m, shortcode, clickData, at) ==
  IF shortcode \notin DOMAIN m.analytics
  THEN [urls |-> m.urls, analytics |-> m.analytics, ret |-> FALSE]
  ELSE LET entry == m.analytics[shortcode]
           click == [timestamp |-> at,
                     ip |-> clickData.ip,
                     userAgent |-> clickData.userAgent,
                     referrer |-> IF clickData.referrer = "" THEN "direct"
                                  ELSE clickData.referrer,
                     location |-> clickData.location]
       IN [urls |-> m.urls,
           analytics |-> MapSet(m.analytics, shortcode,
                                [totalClicks |-> entry.totalClicks + 1,
                                 clicks |-> Append(entry.clicks, click)]),
           ret |-> TRUE]

\* (mutant) a getAnalytics that returns the isActive flag stored at creation
getAnalytics_storedFlag(m, shortcode, at) ==
  IF shortcode \notin DOMAIN m.urls \/ shortcode \notin DOMAIN m.analytics
  THEN null
  ELSE [shortcode |-> shortcode,
        originalUrl |-> m.urls[shortcode].originalUrl,
        createdAt |-> m.urls[shortcode].createdAt,
        expiryDate |-> m.urls[shortcode].expiryDate,
        totalClicks |-> m.analytics[shortcode].totalClicks,
        clicks |-> m.analytics[shortcode].clicks,
        isActive |-> m.urls[shortcode].isActive]

\* getAnalytics(shortcode), the clock reading `at`
getAnalytics(m, shortcode, at) ==
  IF shortcode \notin DOMAIN m.urls \/ shortcode \notin DOMAIN m.analytics
  THEN null
  ELSE IF m.urls[shortcode].expiryDate = InvalidDate THEN RangeError
  ELSE [shortcode |-> shortcode,
        originalUrl |-> m.urls[shortcode].originalUrl,
        createdAt |-> m.urls[shortcode].createdAt,
        expiryDate |-> m.urls[shortcode].expiryDate,
        totalClicks |-> m.analytics[shortcode].totalClicks,
        clicks |-> m.analytics[shortcode].clicks,
        isActive |-> (m.urls[shortcode].isActive
                      /\ NotAfter(at, m.urls[shortcode].expiryDate))]

\* (mutant) a sweep that also removes the records expiring at this instant
cleanupExpired_atExpiry(m, at) ==
  LET expired == {c \in DOMAIN m.urls : at >= m.urls[c].expiryDate}
  IN [urls |-> MapDelete(m.urls, expired),
      analytics |-> MapDelete(m.analytics, expired),
      ret |-> Cardinality(expired)]

\* (mutant) a sweep that stops after the first expired record it deletes
cleanupExpired_oneAtATime(m, at) ==
  LET expired == {c \in DOMAIN m.urls : at > m.urls[c].expiryDate}
      first == IF expired = {} THEN {} ELSE {CHOOSE c \in expired : TRUE}
  IN [urls |-> MapDelete(m.urls, first),
      analytics |-> MapDelete(m.analytics, first),
      ret |-> Cardinality(first)]

\* (mutant) a sweep that deletes the records and forgets their analytics
cleanupExpired_urlsOnly(m, at) ==
  LET expired == {c \in DOMAIN m.urls : at > m.urls[c].expiryDate}
  IN [urls |-> MapDelete(m.urls, expired),
      analytics |-> m.analytics,
      ret |-> Cardinality(expired)]

\* (mutant) a sweep that drops the analytics of an expired record and leaves
\* its URL entry
cleanupExpired_analyticsOnly(m, at) ==
  LET expired == {c \in DOMAIN m.urls : at > m.urls[c].expiryDate}
  IN [urls |-> m.urls,
      analytics |-> MapDelete(m.analytics, expired),
      ret |-> Cardinality(expired)]

\* cleanupExpired(), the clock reading `at`
cleanupExpired(m, at) ==
  LET expired == {c \in DOMAIN m.urls : After(at, m.urls[c].expiryDate)}
  IN [urls |-> MapDelete(m.urls, expired),
      analytics |-> MapDelete(m.analytics, expired),
      ret |-> Cardinality(expired)]

---------------------------------------------------------------------------
\* Routing (src/app.js setupRoutes, the two routers)

\* a path parameter in a route pattern
PARAM == <<":shortcode">>

\* routes/urlRoutes.js, in registration order
urlRoutes ==
  << [method |-> "POST", pattern |-> <<sShorturls>>, handler |-> "create"],
     [method |-> "GET", pattern |-> <<sShorturls, PARAM>>, handler |-> "statistics"] >>

\* routes/redirectRoutes.js, in registration order
redirectRoutes ==
  << [method |-> "GET", pattern |-> <<PARAM>>, handler |-> "redirect"],
     [method |-> "GET", pattern |-> <<sHealth>>, handler |-> "health"] >>

\* a router mounted under a prefix: its routes with the prefix in front
mount(prefix, router) ==
  [i \in 1..Len(router) |->
     [method |-> router[i].method, pattern |-> prefix \o router[i].pattern,
      handler |-> router[i].handler]]

\* setupRoutes: the stack the app matches a request against, in order
appRoutes ==
  mount(<<sApi>>, urlRoutes) \o mount(<<>>, urlRoutes)
    \o mount(<<>>, redirectRoutes)
    \o << [method |-> "GET", pattern |-> <<>>, handler |-> "root"] >>

matches(route, method, path) ==
  /\ route.method = method
  /\ Len(route.pattern) = Len(path)
  /\ \A i \in 1..Len(path) : route.pattern[i] = PARAM \/ route.pattern[i] = path[i]

\* the handler of the first matching route (none of the handlers calls next()),
\* or the '*' handler of setupErrorHandling
dispatch(method, path) ==
  LET hits == {i \in 1..Len(appRoutes) : matches(appRoutes[i], method, path)}
  IN IF hits = {} THEN "notFound"
     ELSE appRoutes[CHOOSE i \in hits : \A j \in hits : i <= j].handler

---------------------------------------------------------------------------
\* The handlers.  Each returns the maps it leaves, the response (status,
\* Location header, JSON body) and the last clock reading it took.

errorBody(message) == [success |-> FALSE, message |-> message]

reply(m, status, location, body, at) ==
  [urls |-> m.urls, analytics |-> m.analytics, status |-> status,
   location |-> location, body |-> body, at |-> at]

\* (mutant) a generator loop that takes the first candidate unchecked
generateLoop_unchecked(m, cands, attempts) == cands[1]

\* (mutant) a loop that gives up after MaxAttempts candidates by keeping the
\* last one, present or not
generateLoop_lastUnchecked(m, cands, attempts) ==
  LET free == {i \in 1..MaxAttempts : ~exists(m, cands[i])}
  IN IF free = {} THEN cands[MaxAttempts]
     ELSE cands[CHOOSE i \in free : \A j \in free : i <= j]

\* (mutant) a loop whose attempt test is off by one (attempts >= 10): the
\* tenth candidate is drawn but never checked
RECURSIVE generateLoop_offByOne(_, _, _)
generateLoop_offByOne(m, cands, attempts) ==
  IF attempts + 1 >= MaxAttempts THEN Absent
  ELSE IF exists(m, cands[attempts + 1])
       THEN generateLoop_offByOne(m, cands, attempts + 1)
       ELSE cands[attempts + 1]

\* the do-while of the create handler over the generator's candidates:
\* `attempts` candidates were drawn before this iteration
RECURSIVE generateLoop(_, _, _)
generateLoop(m, cands, attempts) ==
  IF attempts + 1 > MaxAttempts THEN Absent
  ELSE IF exists(m, cands[attempts + 1])
       THEN generateLoop(m, cands, attempts + 1)
       ELSE cands[attempts + 1]

\* router.post('/shorturls'): t1 is the clock calculateExpiryDate reads, t2 the
\* clock the default parameter of UrlModel.create reads
createHandler(m, body, cands, t1, t2) ==
  LET validityMinutes == IF body.validity = Absent \/ body.validity = <<0>>
                         THEN <<DefaultValidity>> ELSE body.validity
      finalShortcode == IF body.shortcode # Absent THEN body.shortcode
                        ELSE generateLoop(m, cands, 0)
      expiryDate == calculateExpiryDate(validityMinutes, t1)
      made == create(m, finalShortcode, body.url, expiryDate, t2)
  IN IF body.url = NoUrl
     THEN reply(m, 400, NoUrl, errorBody("URL is required"), t1)
     ELSE IF ~isValidUrl(body.url)
     THEN reply(m, 400, NoUrl, errorBody("Invalid URL format"), t1)
     ELSE IF /\ ~isNaN(validityMinutes)
             /\ \/ validityMinutes[1] < MinValidity
                \/ validityMinutes[1] > MaxValidity
     THEN reply(m, 400, NoUrl, errorBody("Invalid validity period"), t1)
     ELSE IF body.shortcode # Absent /\ ~isValidShortcode(body.shortcode)
     THEN reply(m, 400, NoUrl, errorBody("Invalid shortcode format"), t1)
     ELSE IF body.shortcode # Absent /\ exists(m, body.shortcode)
     THEN reply(m, 409, NoUrl, errorBody("Shortcode already exists"), t1)
     ELSE IF finalShortcode = Absent
     THEN reply(m, 500, NoUrl, errorBody("Unable to generate unique shortcode"), t1)
     ELSE IF made.ret = RangeError
     THEN reply(made, 500, NoUrl, errorBody("Internal server error"), t2)
     ELSE reply(made, 201, NoUrl,
                [shortLink |-> finalShortcode, expiry |-> expiryDate], t2)

\* router.get('/shorturls/:shortcode')
statisticsHandler(m, shortcode, at) ==
  LET a == getAnalytics(m, shortcode, at)
  IN IF ~isValidShortcode(shortcode)
     THEN reply(m, 400, NoUrl, errorBody("Invalid shortcode format"), at)
     ELSE IF a = RangeError
     THEN reply(m, 500, NoUrl, errorBody("Internal server error"), at)
     ELSE IF a = null
     THEN reply(m, 404, NoUrl, errorBody("Short URL not found"), at)
     ELSE reply(m, 200, NoUrl,
                [shortcode |-> a.shortcode, originalUrl |-> a.originalUrl,
                 createdAt |-> a.createdAt, expiryDate |-> a.expiryDate,
                 isActive |-> a.isActive, totalClicks |-> a.totalClicks,
                 clickDetails |->
                   [i \in 1..Len(a.clicks) |->
                      [timestamp |-> a.clicks[i].timestamp,
                       referrer |-> a.clicks[i].referrer,
                       location |-> [country |-> a.clicks[i].location.country,
                                     region |-> a.clicks[i].location.region,
                                     city |-> a.clicks[i].location.city],
                       userAgent |-> a.clicks[i].userAgent]]], at)

\* (mutant) a redirect route that drops a record it finds expired
redirectHandler_purgesExpired(m, shortcode, client, t1, t2) ==
  LET urlData == findByShortcode(m, shortcode, t1)
      clickData == [ip |-> client.ip,
                    userAgent |-> IF client.userAgent = "" THEN "Unknown"
                                  ELSE client.userAgent,
                    referrer |-> extractReferrer(client.referer),
                    location |-> getLocationFromIP(client.ip)]
      clicked == recordClick(m, shortcode, clickData, t2)
      purged == [urls |-> MapDelete(m.urls, {shortcode}),
                 analytics |-> MapDelete(m.analytics, {shortcode})]
  IN IF ~isValidShortcode(shortcode)
     THEN reply(m, 400, NoUrl, errorBody("Invalid shortcode format"), t1)
     ELSE IF urlData = null
     THEN reply(purged, 404, NoUrl,
                errorBody("Short URL not found or has expired"), t1)
     ELSE reply(clicked, 302, urlData.originalUrl, null, t2)

\* router.get('/:shortcode'): t1 is the clock findByShortcode reads, t2 the
\* clock recordClick stamps the click with
redirectHandler(m, shortcode, client, t1, t2) ==
  LET urlData == findByShortcode(m, shortcode, t1)
      clickData == [ip |-> client.ip,
                    userAgent |-> IF client.userAgent = "" THEN "Unknown"
                                  ELSE client.userAgent,
                    referrer |-> extractReferrer(client.referer),
                    location |-> getLocationFromIP(client.ip)]
      clicked == recordClick(m, shortcode, clickData, t2)
  IN IF ~isValidShortcode(shortcode)
     THEN reply(m, 400, NoUrl, errorBody("Invalid shortcode format"), t1)
     ELSE IF urlData = null
     THEN reply(m, 404, NoUrl, errorBody("Short URL not found or has expired"), t1)
     ELSE reply(clicked, 302, urlData.originalUrl, null, t2)

\* router.get('/health')
healthHandler(m, at) ==
  reply(m, 200, NoUrl, [status |-> "healthy"], at)

\* app.get('/')
rootHandler(m, at) ==
  reply(m, 200, NoUrl, [status |-> "running"], at)

\* app.use('*')
notFoundHandler(m, at) ==
  reply(m, 404, NoUrl, errorBody("Route not found"), at)

\* a GET request through the app: the route stack picks the handler
getRequest(m, path, client, t1, t2) ==
  LET h == dispatch("GET", path)
  IN CASE h = "statistics" -> statisticsHandler(m, path[Len(path)], t1)
       [] h = "redirect" -> redirectHandler(m, path[Len(path)], client, t1, t2)
       [] h = "health" -> healthHandler(m, t1)
       [] h = "root" -> rootHandler(m, t1)
       [] OTHER -> notFoundHandler(m, t1)

---------------------------------------------------------------------------
\* The state machine

\* the paths requests are sent to
PostPaths == {<<sShorturls>>}
GetPaths ==
  {<<c>> : c \in ParamShortcodes} \cup {<<sShorturls, c>> : c \in ParamShortcodes}
    \cup {<<>>, <<sAb, sAb>>}

\* the JSON bodies of the creates: each value of a field beside passing values
\* of the other two, and a second URL with the default validity
ReqBodies ==
  [url : ReqUrls, validity : {<<1>>}, shortcode : {sAbc123}]
    \cup [url : {uExample}, validity : ReqValidities, shortcode : {sAbc123}]
    \cup [url : {uExample}, validity : {<<1>>}, shortcode : ReqShortcodes]
    \cup [url : {uInternal}, validity : {Absent}, shortcode : {sHealth}]

Model == [urls |-> urls, analytics |-> analytics]

\* resp: the request (method, path, and the JSON body or the client) with the
\* response it was given (status, Location header, JSON body)
NoResponse ==
  [method |-> "NONE", path |-> <<>>, request |-> null, status |-> 0,
   location |-> NoUrl, body |-> null]

Init ==
  /\ urls = <<>>
  /\ analytics = <<>>
  /\ now = 0
  /\ resp = NoResponse
  /\ created201 = <<>>
  /\ served302 = <<>>
  /\ lastCleanup = null

\* the event loop runs one callback at a time, each to completion
Idle == resp = NoResponse

\* the clock readings a handler can take after it has read `now`
Later == {t \in now..(now + MaxSkew) : t <= MaxTime}

Count(map, key) == IF key \in DOMAIN map THEN map[key] ELSE 0

RECURSIVE SumClicks(_, _)
SumClicks(a, keys) ==
  IF keys = {} THEN 0
  ELSE LET k == CHOOSE x \in keys : TRUE
       IN a[k].totalClicks + SumClicks(a, keys \ {k})
TotalClicks(a) == SumClicks(a, DOMAIN a)

\* POST path with JSON body `body`; the generator would return `cands`
Post(path, body, cands, t2) ==
  \E r \in {IF dispatch("POST", path) = "create"
            THEN createHandler(Model, body, cands, now, t2)
            ELSE notFoundHandler(Model, now)} :
     /\ t2 = r.at
     /\ urls' = r.urls
     /\ analytics' = r.analytics
     /\ now' = r.at
     /\ resp' = [method |-> "POST", path |-> path, request |-> body,
                 generated |-> cands, status |-> r.status,
                 location |-> r.location, body |-> r.body]
     /\ created201' = IF r.status = 201
                      THEN MapSet(created201, r.body.shortLink,
                                  Count(created201, r.body.shortLink) + 1)
                      ELSE created201
     /\ served302' = IF r.status = 201
                     THEN MapSet(served302, r.body.shortLink, 0)
                     ELSE served302
     /\ lastCleanup' = IF r.status = 201 THEN lastCleanup ELSE null

\* GET path from `client`
Get(path, client, t2) ==
  \E r \in {getRequest(Model, path, client, now, t2)} :
     /\ t2 = r.at
     /\ TotalClicks(r.analytics) <= MaxClicks
     /\ urls' = r.urls
     /\ analytics' = r.analytics
     /\ now' = r.at
     /\ resp' = [method |-> "GET", path |-> path, request |-> client,
                 status |-> r.status,
                 location |-> r.location, body |-> r.body]
     /\ served302' = IF r.status = 302
                     THEN MapSet(served302, path[Len(path)],
                                 Count(served302, path[Len(path)]) + 1)
                     ELSE served302
     /\ lastCleanup' = null
     /\ UNCHANGED created201

\* the setInterval callback of server.js
Cleanup ==
  \E r \in {cleanupExpired(Model, now)} :
     /\ urls' = r.urls
     /\ analytics' = r.analytics
     /\ resp' = [method |-> "TIMER", path |-> <<>>, request |-> null,
                 status |-> 0,
                 location |-> NoUrl, body |-> [cleanedCount |-> r.ret]]
     /\ created201' = MapDelete(created201, (DOMAIN urls) \ (DOMAIN r.urls))
     /\ served302' = MapDelete(served302, (DOMAIN urls) \ (DOMAIN r.urls))
     /\ lastCleanup' =
          LET before == IF lastCleanup = null THEN <<>> ELSE lastCleanup.removed
              gone == (DOMAIN urls) \ (DOMAIN r.urls)
          IN [at |-> now,
              first |-> (lastCleanup = null),
              removed |-> [c \in gone \cup DOMAIN before |->
                             IF c \in gone THEN analytics[c].totalClicks
                             ELSE before[c]]]
     /\ UNCHANGED now

\* the response (or the timer's result) has gone out: the event loop is free
\* for the next callback
Sent ==
  /\ resp # NoResponse
  /\ resp' = NoResponse
  /\ lastCleanup' = IF resp.method = "TIMER" THEN lastCleanup ELSE null
  /\ UNCHANGED <<urls, analytics, now, created201, served302>>

\* time passes between two callbacks
Tick ==
  /\ Idle
  /\ now < MaxTime
  /\ now' = now + 1
  /\ UNCHANGED <<urls, analytics, resp, created201, served302, lastCleanup>>

Next ==
  \/ /\ Idle
     /\ \E path \in PostPaths, body \in ReqBodies :
          \E cands \in CandidatesFor(body), t2 \in Later :
            Post(path, body, cands, t2)
  \/ /\ Idle
     /\ \E path \in GetPaths, client \in Clients, t2 \in Later :
          Get(path, client, t2)
  \/ (Idle /\ Cleanup)
  \/ Sent
  \/ Tick

Spec == Init /\ [][Next]_vars

---------------------------------------------------------------------------
\* The registry called directly: UrlModel is an exported singleton, and any
\* callback may call recordClick on it without a findByShortcode before

\* the click data the redirect route builds for a client
clickDataOf(client) ==
  [ip |-> client.ip,
   userAgent |-> IF client.userAgent = "" THEN "Unknown" ELSE client.userAgent,
   referrer |-> extractReferrer(client.referer),
   location |-> getLocationFromIP(client.ip)]

\* urlModel.recordClick(shortcode, clickData) as a callback of its own
RecordClickCall(shortcode, client) ==
  \E r \in {recordClick(Model, shortcode, clickDataOf(client), now)} :
     /\ TotalClicks(r.analytics) <= MaxClicks
     /\ urls' = r.urls
     /\ analytics' = r.analytics
     /\ resp' = [method |-> "CALL", path |-> <<shortcode>>, request |-> client,
                 status |-> 0, location |-> NoUrl, body |-> [ret |-> r.ret]]
     /\ UNCHANGED <<now, created201, served302, lastCleanup>>

\* the creates that fill the registry for the direct calls: one record that
\* expires within the run and one that does not
ApiBodies ==
  {[url |-> uExample, validity |-> <<1>>, shortcode |-> sAbc123],
   [url |-> uInternal, validity |-> Absent, shortcode |-> sHealth]}

NextApi ==
  \/ /\ Idle
     /\ \E path \in PostPaths, body \in ApiBodies :
          \E cands \in CandidatesFor(body), t2 \in Later :
            Post(path, body, cands, t2)
  \/ /\ Idle
     /\ \E shortcode \in ParamShortcodes, client \in Clients :
          RecordClickCall(shortcode, client)
  \/ (Idle /\ Cleanup)
  \/ Sent
  \/ Tick

SpecApi == Init /\ [][NextApi]_vars

---------------------------------------------------------------------------
\* The service with bodies of any JSON: express.json() accepts a validity of
\* any type and the handler never checks that it is a number

AnyJsonBodies ==
  {[url |-> uExample, validity |-> <<1>>, shortcode |-> sAbc123],
   [url |-> uExample, validity |-> vAbc, shortcode |-> sHealth],
   [url |-> uNotAUrl, validity |-> vAbc, shortcode |-> sAbc123],
   [url |-> uExample, validity |-> <<1>>, shortcode |-> Absent]}

AnyJsonPaths ==
  {<<c>> : c \in {sAbc123, sHealth}}
    \cup {<<sShorturls, c>> : c \in {sAbc123, sHealth}}

NextAnyJson ==
  \/ /\ Idle
     /\ \E path \in PostPaths, body \in AnyJsonBodies :
          \E cands \in CandidatesFor(body), t2 \in Later :
            Post(path, body, cands, t2)
  \/ /\ Idle
     /\ \E path \in AnyJsonPaths, client \in Clients, t2 \in Later :
          Get(path, client, t2)
  \/ (Idle /\ Cleanup)
  \/ Sent
  \/ Tick

SpecAnyJson == Init /\ [][NextAnyJson]_vars

---------------------------------------------------------------------------
\* The service over time: creates arrive up to MaxTime, the clock runs on to
\* Horizon, past the expiry of every record that has a date of expiry, and
\* the interval timer of server.js keeps firing

Horizon == MaxTime + MinValidity * TicksPerMinute + 1

FairBodies ==
  {[url |-> uExample, validity |-> <<1>>, shortcode |-> sAbc123],
   [url |-> uExample, validity |-> vAbc, shortcode |-> sHealth]}

TickFair ==
  /\ Idle
  /\ now < Horizon
  /\ now' = now + 1
  /\ UNCHANGED <<urls, analytics, resp, created201, served302, lastCleanup>>

NextFair ==
  \/ /\ Idle
     /\ \E path \in PostPaths, body \in FairBodies :
          \E cands \in CandidatesFor(body), t2 \in Later :
            Post(path, body, cands, t2)
  \/ (Idle /\ Cleanup)
  \/ Sent
  \/ TickFair

\* every response goes out, time passes and the timer fires however many
\* requests arrive in between
SpecFair ==
  /\ Init
  /\ [][NextFair]_vars
  /\ WF_vars(Sent)
  /\ SF_vars(TickFair)
  /\ SF_vars(Idle /\ Cleanup)

---------------------------------------------------------------------------
\* The service with a log file that fails: logger.info/warn/error write with
\* fs.appendFileSync, which throws when the append fails.  One call of a
\* request fails, the calls after it succeed (the catch blocks log too).  The
\* remote Log() hands its payload to http.request and returns; its failures
\* end in the 'error' listener and reach no caller.

\* the logger call that fails: the first of the handler, the one before a
\* refusal is returned, the warning inside isValidUrl, the one inside the
\* UrlModel method after its writes, the last before the response
NoFault == "none"
LogSites == {"request", "reject", "isValidUrl", "UrlModel", "done"}

internalServerError(m, at) ==
  reply(m, 500, NoUrl, errorBody("Internal server error"), at)

\* router.post('/shorturls') with the logger call `f` throwing: the request
\* runs as without the fault until it reaches that call
createHandlerLog(m, body, cands, t1, t2, f) ==
  LET ok == createHandler(m, body, cands, t1, t2)
  IN CASE f = "request" -> internalServerError(m, t1)
       [] f = "isValidUrl" /\ body.url # NoUrl /\ isURL(body.url)
            /\ isInternalHost(body.url.hostname) ->
          reply(m, 400, NoUrl, errorBody("Invalid URL format"), t1)
       [] f = "reject" /\ ok.status # 201 -> internalServerError(m, t1)
       [] f \in {"UrlModel", "done"} /\ ok.status = 201 ->
          internalServerError(ok, t2)
       [] OTHER -> ok

\* router.get('/:shortcode') with the logger call `f` throwing
redirectHandlerLog(m, shortcode, client, t1, t2, f) ==
  LET ok == redirectHandler(m, shortcode, client, t1, t2)
  IN CASE f = "request" -> internalServerError(m, t1)
       [] f = "reject" /\ ok.status # 302 -> internalServerError(m, t1)
       [] f = "UrlModel" /\ ok.status = 404 -> internalServerError(m, t1)
       [] f \in {"UrlModel", "done"} /\ ok.status = 302 ->
          internalServerError(ok, t2)
       [] OTHER -> ok

\* router.get('/shorturls/:shortcode') with the logger call `f` throwing
statisticsHandlerLog(m, shortcode, at, f) ==
  LET ok == statisticsHandler(m, shortcode, at)
  IN CASE f = "request" -> internalServerError(m, at)
       [] f = "reject" /\ ok.status # 200 -> internalServerError(m, at)
       [] f = "UrlModel" /\ ok.status = 404 -> internalServerError(m, at)
       [] f = "done" /\ ok.status = 200 -> internalServerError(m, at)
       [] OTHER -> ok

LogBodies ==
  {[url |-> uExample, validity |-> <<1>>, shortcode |-> sAbc123],
   [url |-> uInternal, validity |-> <<1>>, shortcode |-> sHealth],
   [url |-> uNotAUrl, validity |-> <<1>>, shortcode |-> sAbc123]}

PostLog(path, body, cands, t2, f) ==
  \E r \in {createHandlerLog(Model, body, cands, now, t2, f)} :
     /\ t2 = r.at
     /\ urls' = r.urls
     /\ analytics' = r.analytics
     /\ now' = r.at
     /\ resp' = [method |-> "POST", path |-> path, request |-> body,
                 generated |-> cands, logFault |-> f, status |-> r.status,
                 location |-> r.location, body |-> r.body]
     /\ created201' = IF r.status = 201
                      THEN MapSet(created201, r.body.shortLink,
                                  Count(created201, r.body.shortLink) + 1)
                      ELSE created201
     /\ served302' = IF r.status = 201
                     THEN MapSet(served302, r.body.shortLink, 0)
                     ELSE served302
     /\ lastCleanup' = IF r.status = 201 THEN lastCleanup ELSE null

GetLog(path, client, t2, f) ==
  \E r \in {IF dispatch("GET", path) = "redirect"
            THEN redirectHandlerLog(Model, path[Len(path)], client, now, t2, f)
            ELSE statisticsHandlerLog(Model, path[Len(path)], now, f)} :
     /\ t2 = r.at
     /\ TotalClicks(r.analytics) <= MaxClicks
     /\ urls' = r.urls
     /\ analytics' = r.analytics
     /\ now' = r.at
     /\ resp' = [method |-> "GET", path |-> path, request |-> client,
                 logFault |-> f, status |-> r.status,
                 location |-> r.location, body |-> r.body]
     /\ served302' = IF r.status = 302
                     THEN MapSet(served302, path[Len(path)],
                                 Count(served302, path[Len(path)]) + 1)
                     ELSE served302
     /\ lastCleanup' = null
     /\ UNCHANGED created201

NextLog ==
  \/ /\ Idle
     /\ \E path \in PostPaths, body \in LogBodies, f \in LogSites \cup {NoFault} :
          \E cands \in CandidatesFor(body), t2 \in Later :
            PostLog(path, body, cands, t2, f)
  \/ /\ Idle
     /\ \E path \in AnyJsonPaths, client \in Clients, t2 \in Later :
          \E f \in LogSites \cup {NoFault} : GetLog(path, client, t2, f)
  \/ (Idle /\ Cleanup)
  \/ Sent
  \/ Tick

SpecLog == Init /\ [][NextLog]_vars

---------------------------------------------------------------------------
\* Steps and requests the properties speak about

\* a callback starts only on an idle event loop, so the step that leaves
\* `resp` non-empty is the step of the callback `resp` describes
PostStep == resp = NoResponse /\ resp'.method = "POST"
GetStep == resp = NoResponse /\ resp'.method = "GET"
CleanupStep == resp = NoResponse /\ resp'.method = "TIMER"
RecordClickStep == resp = NoResponse /\ resp'.method = "CALL"

\* GET /:shortcode and GET /shorturls/:shortcode
IsRedirectRequest(r) == r.method = "GET" /\ Len(r.path) = 1
IsStatisticsRequest(r) ==
  r.method = "GET" /\ Len(r.path) = 2 /\ r.path[1] = sShorturls

\* the validity a request asks for: the default when the field is left out
RequestedValidity(v) ==
  IF v = Absent \/ v[1] = 0 THEN DefaultValidity ELSE v[1]

ClickFields == {"timestamp", "ip", "userAgent", "referrer", "location"}

---------------------------------------------------------------------------
\* C1: concurrent creates claiming one shortcode that is not present are
\* served one after the other: exactly one of them is answered 201 and
\* inserts the record (one 201 per present record), a later custom create is
\* answered 409, a later generated create gets another code (or 500), and no
\* create ever overwrites a record or analytics entry that is present.
C1_CreateIfAbsent ==
  [][/\ \A c \in DOMAIN urls' : Count(created201', c) = 1
     /\ PostStep =>
          /\ \A c \in DOMAIN urls :
               /\ c \in DOMAIN urls' /\ urls'[c] = urls[c]
               /\ c \in DOMAIN analytics' /\ analytics'[c] = analytics[c]
          /\ resp'.status = 201 =>
               /\ resp'.body.shortLink \notin DOMAIN urls
               /\ DOMAIN urls' = (DOMAIN urls) \cup {resp'.body.shortLink}
          /\ resp'.status # 201 => DOMAIN urls' = DOMAIN urls
          /\ (resp'.request.shortcode \in DOMAIN urls /\ resp'.status # 400)
               => resp'.status = 409]_vars

\* two creates served at the same clock reading claimed one shortcode: the
\* first inserted it, the second has just been answered 409
C1_Witness ==
  /\ resp.method = "POST" /\ resp.status = 409
  /\ resp.request.shortcode \in DOMAIN urls
  /\ urls[resp.request.shortcode].createdAt = now
  /\ created201[resp.request.shortcode] = 1

\* C2: a create with an accepted url, an accepted validity and a well-formed
\* custom shortcode whose record is present, active or expired, is answered
\* 409 and leaves the record and its analytics as they were.
C2_DuplicateIs409 ==
  [][(/\ PostStep
      /\ isValidUrl(resp'.request.url)
      /\ RequestedValidity(resp'.request.validity) >= MinValidity
      /\ RequestedValidity(resp'.request.validity) <= MaxValidity
      /\ isValidShortcode(resp'.request.shortcode)
      /\ resp'.request.shortcode \in DOMAIN urls)
     => /\ resp'.status = 409
        /\ urls' = urls
        /\ analytics' = analytics]_vars

\* a 409 for a shortcode whose record has expired, was clicked before, and
\* has not been purged
C2_Witness ==
  /\ resp.method = "POST" /\ resp.status = 409
  /\ resp.request.shortcode \in DOMAIN urls
  /\ now > urls[resp.request.shortcode].expiryDate
  /\ analytics[resp.request.shortcode].totalClicks > 0

\* C3: after an accepted create with validity V, a lookup at once finds the
\* record, with the submitted url and expiryDate = createdAt + V minutes.
C3_ExpiryIsCreatedPlusValidity ==
  [][(PostStep /\ resp'.status = 201) =>
       LET c == resp'.body.shortLink
           found == findByShortcode([urls |-> urls', analytics |-> analytics'],
                                    c, now')
       IN /\ found # null
          /\ found.originalUrl = resp'.request.url
          /\ found.expiryDate = found.createdAt
               + RequestedValidity(resp'.request.validity) * TicksPerMinute]_vars

\* C4: a redirect for a record that is present is resolved (302) when the
\* clock the lookup reads is at or before the record's expiryDate, and is
\* answered 404, findByShortcode returning null, when it is after it, the
\* record still being in the registry.
C4_ActiveUntilExpiry ==
  [][(GetStep /\ IsRedirectRequest(resp') /\ resp'.path[1] \in DOMAIN urls) =>
       LET c == resp'.path[1]
       IN /\ now <= urls[c].expiryDate =>
               /\ findByShortcode(Model, c, now) = urls[c]
               /\ resp'.status = 302
          /\ now > urls[c].expiryDate =>
               /\ findByShortcode(Model, c, now) = null
               /\ resp'.status = 404
               /\ c \in DOMAIN urls']_vars

\* a redirect answered 404 for an expired record that is still present
C4_WitnessExpired ==
  /\ IsRedirectRequest(resp) /\ resp.status = 404
  /\ resp.path[1] \in DOMAIN urls
  /\ now > urls[resp.path[1]].expiryDate

\* C5: a statistics request for a well-formed shortcode is answered 200 only
\* when the record is present and not expired, and 404 when the record is
\* expired, purged or not.
C5_ExpiredStatisticsIs404 ==
  [][(GetStep /\ IsStatisticsRequest(resp') /\ isValidShortcode(resp'.path[2])) =>
       LET c == resp'.path[2]
           active == c \in DOMAIN urls /\ now <= urls[c].expiryDate
       IN /\ active => resp'.status = 200
          /\ ~active => resp'.status = 404]_vars

\* C6: GET /health is answered 200 with status "healthy".
C6_HealthIs200 ==
  (resp.method = "GET" /\ resp.path = <<sHealth>>) =>
    (resp.status = 200 /\ resp.body = [status |-> "healthy"])

\* C7: a redirect for a present, unexpired record is answered 302 with the
\* stored originalUrl as Location and appends exactly one click, which a
\* statistics read that follows reports.
C7_RedirectRecordsOneClick ==
  [][(/\ GetStep /\ IsRedirectRequest(resp')
      /\ resp'.path[1] \in DOMAIN urls
      /\ now <= urls[resp'.path[1]].expiryDate) =>
       LET c == resp'.path[1]
           after == [urls |-> urls', analytics |-> analytics']
       IN /\ resp'.status = 302
          /\ resp'.location = urls[c].originalUrl
          /\ analytics'[c].totalClicks = analytics[c].totalClicks + 1
          /\ Len(analytics'[c].clicks) = Len(analytics[c].clicks) + 1
          /\ getAnalytics(after, c, now').totalClicks
               = analytics[c].totalClicks + 1]_vars

\* a 302 to the stored url, after which the record counts its second click
C7_Witness ==
  /\ IsRedirectRequest(resp) /\ resp.status = 302
  /\ resp.path[1] \in DOMAIN urls
  /\ resp.location = urls[resp.path[1]].originalUrl
  /\ analytics[resp.path[1]].totalClicks = 2

\* C8: for every shortcode in the registry, totalClicks is the length of the
\* click sequence.
C8_TotalClicksIsLength ==
  \A c \in (DOMAIN urls) \cup (DOMAIN analytics) :
    /\ c \in DOMAIN analytics
    /\ analytics[c].totalClicks = Len(analytics[c].clicks)

\* a record holding clicks
C8_Witness ==
  \E c \in DOMAIN analytics :
    analytics[c].totalClicks = 2 /\ Len(analytics[c].clicks) = 2

\* C9: N redirects served for one present shortcode, in whatever order the
\* event loop runs them, leave it with N clicks counted and N complete
\* ClickRecords; at no point is a click appended but not counted.
C9_NoLostClick ==
  \A c \in DOMAIN urls :
    /\ c \in DOMAIN analytics /\ c \in DOMAIN served302
    /\ analytics[c].totalClicks = served302[c]
    /\ Len(analytics[c].clicks) = served302[c]
    /\ \A i \in 1..Len(analytics[c].clicks) :
         DOMAIN analytics[c].clicks[i] = ClickFields

\* two redirects for one shortcode served at the same clock reading
C9_Witness ==
  \E c \in DOMAIN urls :
    /\ served302[c] = 2
    /\ Len(analytics[c].clicks) = 2
    /\ analytics[c].clicks[1].timestamp = analytics[c].clicks[2].timestamp

\* C10: a cleanup at `now` removes exactly the records with expiryDate < now,
\* with their analytics, leaves the others and their analytics as they were,
\* and returns the number removed.
C10_CleanupRemovesExactlyExpired ==
  [][CleanupStep =>
       LET gone == {c \in DOMAIN urls : urls[c].expiryDate < now}
       IN /\ DOMAIN urls' = (DOMAIN urls) \ gone
          /\ DOMAIN analytics' = (DOMAIN analytics) \ gone
          /\ \A c \in (DOMAIN urls) \ gone :
               urls'[c] = urls[c] /\ analytics'[c] = analytics[c]
          /\ resp'.body.cleanedCount = Cardinality(gone)]_vars

\* a cleanup that removed one record and kept one expiring at this instant
C10_Witness ==
  /\ resp.method = "TIMER" /\ resp.body.cleanedCount = 1
  /\ \E c \in DOMAIN urls : urls[c].expiryDate = now

\* C11 (as stated): a cleanup that follows a cleanup, no request served in
\* between, returns 0 and leaves the registry as the first one left it.
C11_SecondCleanupIsNoOp ==
  [][(CleanupStep /\ lastCleanup # null) =>
       /\ resp'.body.cleanedCount = 0
       /\ urls' = urls
       /\ analytics' = analytics]_vars

\* C11 (amended): a cleanup that follows a cleanup, no request served in
\* between, removes exactly the records whose expiryDate lies between the two
\* clock readings (first reading <= expiryDate < second reading); it returns 0
\* and leaves the registry as it was when there is none, in particular when
\* both calls read the same clock.
C11_SecondCleanupRemovesNewlyExpired ==
  [][(CleanupStep /\ lastCleanup # null) =>
       LET between == {c \in DOMAIN urls :
                         /\ lastCleanup.at <= urls[c].expiryDate
                         /\ urls[c].expiryDate < now}
       IN /\ resp'.body.cleanedCount = Cardinality(between)
          /\ DOMAIN urls' = (DOMAIN urls) \ between
          /\ DOMAIN analytics' = (DOMAIN analytics) \ between
          /\ between = {} => (urls' = urls /\ analytics' = analytics)
          /\ lastCleanup.at = now => between = {}]_vars

\* a second cleanup in a row, at the clock reading of the first, that returned
\* 0 after the first had removed a record and left another
C11_Witness ==
  /\ resp.method = "TIMER" /\ resp.body.cleanedCount = 0
  /\ ~lastCleanup.first
  /\ lastCleanup.at = now
  /\ DOMAIN lastCleanup.removed # {}
  /\ DOMAIN urls # {}

\* C12: a create without shortcode that is answered 201 inserts its record
\* under a generated code for which exists() was false when it was inserted,
\* and every record and analytics entry that was present, active or expired,
\* is left as it was.
C12_GeneratedCodeIsFresh ==
  [][(PostStep /\ resp'.request.shortcode = Absent /\ resp'.status = 201) =>
       LET c == resp'.body.shortLink
       IN /\ ~exists(Model, c)
          /\ \E i \in 1..Len(resp'.generated) : resp'.generated[i] = c
          /\ exists([urls |-> urls', analytics |-> analytics'], c)
          /\ analytics'[c] = [totalClicks |-> 0, clicks |-> <<>>]
          /\ \A d \in DOMAIN urls :
               /\ d \in DOMAIN urls' /\ urls'[d] = urls[d]
               /\ d \in DOMAIN analytics' /\ analytics'[d] = analytics[d]]_vars

\* a generated create whose first candidate collided with an expired record
\* that holds a click: the record is still there, the new one has another code
C12_Witness ==
  /\ resp.method = "POST" /\ resp.status = 201
  /\ resp.request.shortcode = Absent
  /\ resp.generated[1] # resp.body.shortLink
  /\ resp.generated[1] \in DOMAIN urls
  /\ now > urls[resp.generated[1]].expiryDate
  /\ analytics[resp.generated[1]].totalClicks > 0

\* C13: the generation loop of a create without shortcode (url and validity
\* accepted) ends after checking at most MaxAttempts candidates against
\* exists(): the create is answered 201 with the first of these that is not
\* present, and when all of them are present it is answered 500 and the
\* registry is left as it was.
C13_GenerationLoopBounded ==
  [][(/\ PostStep /\ resp'.request.shortcode = Absent
      /\ isValidUrl(resp'.request.url)
      /\ RequestedValidity(resp'.request.validity) >= MinValidity
      /\ RequestedValidity(resp'.request.validity) <= MaxValidity) =>
       LET cands == resp'.generated
           free == {i \in 1..MaxAttempts : cands[i] \notin DOMAIN urls}
       IN /\ free # {} =>
               /\ resp'.status = 201
               /\ resp'.body.shortLink
                    = cands[CHOOSE i \in free : \A j \in free : i <= j]
          /\ free = {} =>
               /\ resp'.status = 500
               /\ urls' = urls
               /\ analytics' = analytics]_vars

\* a create answered 500 after MaxAttempts collisions, although the candidate
\* the generator returned next was free
C13_Witness ==
  /\ resp.method = "POST" /\ resp.status = 500
  /\ resp.request.shortcode = Absent
  /\ \A i \in 1..MaxAttempts : resp.generated[i] \in DOMAIN urls
  /\ resp.generated[MaxAttempts + 1] \notin DOMAIN urls

\* C14: a create that supplies a validity n with n < 1 or n > 525600 is
\* answered 400 and inserts nothing.
C14_ValidityOutOfRangeIs400 ==
  [][(/\ PostStep /\ resp'.request.validity # Absent
      /\ \/ resp'.request.validity[1] < MinValidity
         \/ resp'.request.validity[1] > MaxValidity) =>
       /\ resp'.status = 400
       /\ urls' = urls
       /\ analytics' = analytics]_vars

\* C15: a create with an accepted url and no validity field (its shortcode
\* left out with a free candidate among those checked, or well formed and
\* not present) is answered 201 and its record has
\* expiryDate = createdAt + 30 minutes.
C15_DefaultValidityIs30 ==
  [][(/\ PostStep /\ isValidUrl(resp'.request.url)
      /\ resp'.request.validity = Absent
      /\ IF resp'.request.shortcode = Absent
         THEN \E i \in 1..MaxAttempts : resp'.generated[i] \notin DOMAIN urls
         ELSE /\ isValidShortcode(resp'.request.shortcode)
              /\ resp'.request.shortcode \notin DOMAIN urls) =>
       /\ resp'.status = 201
       /\ resp'.body.shortLink \in DOMAIN urls'
       /\ urls'[resp'.body.shortLink].expiryDate
            = urls'[resp'.body.shortLink].createdAt
                + DefaultValidity * TicksPerMinute]_vars

\* the format C16 states: 3 to 20 characters, each an ASCII letter or digit
WellFormedShortcode(c) ==
  /\ Len(c) \in 3..20
  /\ \A i \in 1..Len(c) : c[i] \in alphabet

C17_RecordsAndAnalyticsCoincide ==
  /\ DOMAIN urls = DOMAIN analytics
  /\ \A c \in ParamShortcodes \ DOMAIN urls :
       LET clicked == recordClick(Model, c,
                                  [ip |-> cPublic.ip, userAgent |-> cPublic.userAgent,
                                   referrer |-> extractReferrer(cPublic.referer),
                                   location |-> getLocationFromIP(cPublic.ip)],
                                  now)
       IN ~clicked.ret /\ clicked.analytics = analytics

\* a sweep has just removed a record that held a click, with its analytics,
\* and has left another one with its own
C17_Witness ==
  /\ resp.method = "TIMER" /\ resp.body.cleanedCount = 1
  /\ \E c \in DOMAIN lastCleanup.removed :
       /\ lastCleanup.removed[c] > 0
       /\ c \notin DOMAIN urls /\ c \notin DOMAIN analytics
  /\ \E c \in DOMAIN urls : c \in DOMAIN analytics

\* C18: exists(code) is false until a create is answered 201 for the code,
\* true from then on, expired or not, until a cleanup removes the record, and
\* false after that; a create is answered 201 only for a code whose record
\* is absent (never created, or purged), and the record it inserts starts
\* with totalClicks 0 and no clicks.
C18_ExistsFromCreateToPurge ==
  [][\A c \in (DOMAIN urls) \cup (DOMAIN urls') \cup (DOMAIN created201') :
       LET after == [urls |-> urls', analytics |-> analytics']
       IN /\ exists(after, c) <=> c \in DOMAIN created201'
          /\ (c \notin DOMAIN urls /\ c \in DOMAIN urls') =>
               /\ PostStep /\ resp'.status = 201 /\ resp'.body.shortLink = c
               /\ analytics'[c] = [totalClicks |-> 0, clicks |-> <<>>]
          /\ (c \in DOMAIN urls /\ c \notin DOMAIN urls') =>
               /\ CleanupStep
               /\ now > urls[c].expiryDate
          /\ (c \in DOMAIN urls /\ c \in DOMAIN urls') =>
               /\ urls'[c] = urls[c]
               /\ ~(PostStep /\ resp'.status = 201 /\ resp'.body.shortLink = c)]_vars

\* a shortcode created again after its expired record, which held a click,
\* was purged: the new record has no clicks
C18_Witness ==
  /\ resp.method = "POST" /\ resp.status = 201
  /\ lastCleanup # null
  /\ resp.body.shortLink \in DOMAIN lastCleanup.removed
  /\ lastCleanup.removed[resp.body.shortLink] > 0
  /\ exists(Model, resp.body.shortLink)
  /\ analytics[resp.body.shortLink] = [totalClicks |-> 0, clicks |-> <<>>]

\* C19: the isActive a statistics request is answered with is computed when
\* getAnalytics is called: it is true iff the clock then is at or before the
\* record's expiryDate, whatever the flag stored at creation says.
C19_IsActiveComputedAtCall ==
  [][(GetStep /\ IsStatisticsRequest(resp') /\ resp'.status = 200) =>
       LET c == resp'.path[2]
       IN /\ c \in DOMAIN urls
          /\ resp'.body.isActive <=> (now <= urls[c].expiryDate)]_vars

\* statistics answered with isActive false for a record whose stored flag is
\* still the true of its creation
C19_Witness ==
  /\ IsStatisticsRequest(resp) /\ resp.status = 200
  /\ ~resp.body.isActive
  /\ urls[resp.path[2]].isActive
  /\ now > urls[resp.path[2]].expiryDate

\* C20: whenever a record is expired and still present, a redirect request
\* and a statistics request for its shortcode get the status, Location and
\* body they would get in the same state without that record (and its
\* analytics): expired cannot be told from never created.
C20_ExpiredLooksAbsent ==
  \A c \in DOMAIN urls :
    now > urls[c].expiryDate =>
      LET without == [urls |-> MapDelete(urls, {c}),
                      analytics |-> MapDelete(analytics, {c})]
      IN \A path \in {<<c>>, <<sShorturls, c>>}, client \in Clients :
           LET here == getRequest(Model, path, client, now, now)
               there == getRequest(without, path, client, now, now)
           IN /\ here.status = there.status
              /\ here.location = there.location
              /\ here.body = there.body

\* C22: a create whose url is an absolute http or https URL with a non-empty
\* host, localhost and the private address ranges included, is not answered
\* 400 "Invalid URL format".
C22_InternalHostsAccepted ==
  [][(/\ PostStep
      /\ resp'.request.url.protocol \in {"http", "https"}
      /\ resp'.request.url.hostname # <<>>) =>
       ~(resp'.status = 400 /\ resp'.body = errorBody("Invalid URL format"))]_vars

\* C24: recordClick does not look at the expiry: a redirect that resolved its
\* record appends its click and counts it, with the time recordClick reads,
\* also when that time is past the record's expiryDate; and in every state a
\* recordClick for a present, expired record would append, count and return
\* true.
C24_ClickAfterExpiryIsRecorded ==
  [][/\ (GetStep /\ IsRedirectRequest(resp') /\ resp'.status = 302) =>
          LET c == resp'.path[1]
          IN /\ c \in DOMAIN analytics /\ c \in DOMAIN analytics'
             /\ analytics'[c].totalClicks = analytics[c].totalClicks + 1
             /\ Len(analytics'[c].clicks) = Len(analytics[c].clicks) + 1
             /\ analytics'[c].clicks[Len(analytics'[c].clicks)].timestamp = now'
     /\ \A c \in DOMAIN urls :
          now > urls[c].expiryDate =>
            LET clicked == recordClick(Model, c,
                             [ip |-> cPublic.ip, userAgent |-> cPublic.userAgent,
                              referrer |-> extractReferrer(cPublic.referer),
                              location |-> getLocationFromIP(cPublic.ip)], now)
            IN /\ clicked.ret
               /\ clicked.analytics[c].totalClicks = analytics[c].totalClicks + 1
               /\ Len(clicked.analytics[c].clicks) = Len(analytics[c].clicks) + 1]_vars

\* a redirect whose record expired between the lookup and the recordClick:
\* answered 302, the click is in the record, stamped after the expiryDate
C24_Witness ==
  /\ IsRedirectRequest(resp) /\ resp.status = 302
  /\ resp.path[1] \in DOMAIN urls
  /\ analytics[resp.path[1]].totalClicks > 0
  /\ LET clicks == analytics[resp.path[1]].clicks
     IN clicks[Len(clicks)].timestamp > urls[resp.path[1]].expiryDate

\* C26: while a record stays in the registry its shortcode, originalUrl,
\* createdAt and expiryDate do not change, whatever request or sweep is
\* served; its analytics change only by the click a redirect answered 302
\* appends for that shortcode.
C26_RecordFieldsImmutable ==
  [][\A c \in (DOMAIN urls) \cap (DOMAIN urls') :
       /\ urls'[c].shortcode = urls[c].shortcode /\ urls[c].shortcode = c
       /\ urls'[c].originalUrl = urls[c].originalUrl
       /\ urls'[c].createdAt = urls[c].createdAt
       /\ urls'[c].expiryDate = urls[c].expiryDate
       /\ analytics'[c] # analytics[c] =>
            /\ GetStep /\ IsRedirectRequest(resp')
            /\ resp'.path[1] = c /\ resp'.status = 302
            /\ SubSeq(analytics'[c].clicks, 1, Len(analytics[c].clicks))
                 = analytics[c].clicks]_vars

\* a record that was clicked, then refused to a second create after the clock
\* had moved on: it still has the fields of its creation
C26_Witness ==
  /\ resp.method = "POST" /\ resp.status = 409
  /\ resp.request.shortcode \in DOMAIN urls
  /\ resp.request.url # urls[resp.request.shortcode].originalUrl
  /\ urls[resp.request.shortcode].createdAt < now
  /\ analytics[resp.request.shortcode].totalClicks > 0

\* C28: while a record is present its totalClicks never decreases, the clicks
\* it holds stay as they are and where they are (new ones come after them),
\* and the timestamps of the sequence are non-decreasing.
C28_ClicksAppendOnly ==
  [][\A c \in (DOMAIN analytics) \cap (DOMAIN analytics') :
       (c \in DOMAIN urls /\ c \in DOMAIN urls' /\ urls'[c] = urls[c]) =>
         LET old == analytics[c].clicks
             new == analytics'[c].clicks
         IN /\ analytics'[c].totalClicks >= analytics[c].totalClicks
            /\ Len(new) >= Len(old)
            /\ SubSeq(new, 1, Len(old)) = old
            /\ \A i \in 1..Len(new), j \in 1..Len(new) :
                 i <= j => new[i].timestamp <= new[j].timestamp]_vars

\* a record whose second click was stamped later than its first
C28_Witness ==
  \E c \in DOMAIN analytics :
    /\ Len(analytics[c].clicks) = 2
    /\ analytics[c].clicks[1].timestamp < analytics[c].clicks[2].timestamp

\* C23: recordClick for a shortcode that has no analytics entry returns false
\* and leaves both maps as they were.
C23_RecordClickAbsentIsFalse ==
  [][\A c \in ParamShortcodes :
       (RecordClickStep /\ resp'.path = <<c>> /\ c \notin DOMAIN analytics) =>
         /\ resp'.body.ret = FALSE
         /\ urls' = urls
         /\ analytics' = analytics
         /\ c \notin DOMAIN analytics']_vars

\* recordClick has returned false for a well-formed shortcode while another
\* record, with a click of its own, is in the registry
C23_Witness ==
  /\ resp.method = "CALL"
  /\ resp.path = <<sAbc123>>
  /\ resp.body.ret = FALSE
  /\ sAbc123 \notin DOMAIN analytics
  /\ \E d \in DOMAIN analytics : analytics[d].totalClicks > 0

\* C25: a sweep and a recordClick for one shortcode run one after the other.
\* The recordClick either finds the record and records the click in full, and
\* a later sweep removes the record with that click counted, or it comes after
\* the sweep, returns false and leaves nothing behind; a record never has one
\* map entry without the other or a counter different from its clicks.
C25_CleanupAndRecordClickSerialise ==
  [][/\ \A c \in ParamShortcodes :
          (RecordClickStep /\ resp'.path = <<c>>) =>
            \/ /\ c \in DOMAIN urls
               /\ resp'.body.ret = TRUE
               /\ urls' = urls
               /\ DOMAIN analytics' = DOMAIN analytics
               /\ analytics'[c].totalClicks = analytics[c].totalClicks + 1
               /\ Len(analytics'[c].clicks) = analytics'[c].totalClicks
            \/ /\ c \notin DOMAIN urls
               /\ resp'.body.ret = FALSE
               /\ urls' = urls
               /\ analytics' = analytics
     /\ CleanupStep =>
          \A c \in (DOMAIN urls) \cup (DOMAIN analytics) :
            \/ c \in DOMAIN urls' /\ c \in DOMAIN analytics'
                 /\ urls'[c] = urls[c] /\ analytics'[c] = analytics[c]
            \/ c \notin DOMAIN urls' /\ c \notin DOMAIN analytics'
                 /\ lastCleanup'.removed[c] = Len(analytics[c].clicks)
     /\ DOMAIN urls' = DOMAIN analytics'
     /\ \A c \in DOMAIN analytics' :
          analytics'[c].totalClicks = Len(analytics'[c].clicks)]_vars

\* the delete has won: the sweep removed a record that held a click recorded
\* before it, and the recordClick that came next returned false
C25_Witness ==
  /\ resp.method = "CALL"
  /\ resp.body.ret = FALSE
  /\ lastCleanup # null
  /\ resp.path[1] \in DOMAIN lastCleanup.removed
  /\ lastCleanup.removed[resp.path[1]] > 0
  /\ resp.path[1] \notin (DOMAIN urls) \cup (DOMAIN analytics)

\* C30: a POST /shorturls changes the registry iff it is answered 201: a
\* request answered 400, 409 or 500 leaves records and analytics as they
\* were, one answered 201 adds one record, without clicks, and changes no
\* other.
C30_PostChangesRegistryIffCreated ==
  [][PostStep =>
       /\ (resp'.status = 201) <=> (urls' # urls \/ analytics' # analytics)
       /\ resp'.status \in {400, 409, 500} =>
            (urls' = urls /\ analytics' = analytics)
       /\ resp'.status = 201 =>
            \E c \in (DOMAIN urls') \ (DOMAIN urls) :
              /\ DOMAIN urls' = (DOMAIN urls) \cup {c}
              /\ DOMAIN analytics' = (DOMAIN analytics) \cup {c}
              /\ analytics'[c] = [totalClicks |-> 0, clicks |-> <<>>]
              /\ \A d \in DOMAIN urls :
                   urls'[d] = urls[d] /\ analytics'[d] = analytics[d]]_vars

\* the instants the expiry tests are compared at: up to the latest expiry a
\* record of the run can have, and one past it
Instants == 0..(MaxTime + MaxSkew + MinValidity * TicksPerMinute + 1)

\* C29: at every instant the three expiry tests agree on every present
\* record: findByShortcode resolves it iff getAnalytics reports it active iff
\* cleanupExpired would keep it.
C29_ExpiryTestsAgree ==
  \A c \in DOMAIN urls : \A t \in Instants :
    LET resolves == findByShortcode(Model, c, t) # null
        a == getAnalytics(Model, c, t)
        active == a # null /\ a # RangeError /\ a.isActive
        kept == c \in DOMAIN cleanupExpired(Model, t).urls
    IN (resolves <=> active) /\ (active <=> kept)

\* C27: a record leaves the registry only in a sweep, and only after its
\* expiryDate; and, the timer firing again and again, every record that is
\* in the registry is removed at some time.
C27_DestroyedOnlyAndEventuallyByCleanup ==
  /\ [][\A c \in DOMAIN urls :
          c \notin DOMAIN urls' => (CleanupStep /\ now > urls[c].expiryDate)]_vars
  /\ \A c \in {sAbc123, sHealth} :
       (c \in DOMAIN urls) ~> (c \notin DOMAIN urls)

\* C21: a log call that fails changes nothing for the operation that made
\* it: a create, a redirect and a statistics request get the response, and
\* leave the registry, that they get and leave when every log call succeeds.
C21_LogFailureChangesNothing ==
  [][/\ PostStep =>
          LET ok == createHandler(Model, resp'.request, resp'.generated, now, now')
          IN /\ resp'.status = ok.status
             /\ resp'.body = ok.body
             /\ urls' = ok.urls
             /\ analytics' = ok.analytics
     /\ GetStep =>
          LET ok == getRequest(Model, resp'.path, resp'.request, now, now')
          IN /\ resp'.status = ok.status
             /\ resp'.location = ok.location
             /\ resp'.body = ok.body
             /\ urls' = ok.urls
             /\ analytics' = ok.analytics]_vars

\* C31: the read paths leave the registry alone: a statistics request,
\* whatever its answer, and a redirect answered 400 or 404 change neither
\* map; a redirect answered 302 changes the analytics entry of the shortcode
\* it names and nothing else.
C31_ReadPathsDoNotMutate ==
  [][GetStep =>
       /\ IsStatisticsRequest(resp') =>
            (urls' = urls /\ analytics' = analytics)
       /\ (IsRedirectRequest(resp') /\ resp'.status \in {400, 404}) =>
            (urls' = urls /\ analytics' = analytics)
       /\ (IsRedirectRequest(resp') /\ resp'.status = 302) =>
            /\ urls' = urls
            /\ DOMAIN analytics' = DOMAIN analytics
            /\ analytics'[resp'.path[1]] # analytics[resp'.path[1]]
            /\ \A d \in (DOMAIN analytics) \ {resp'.path[1]} :
                 analytics'[d] = analytics[d]]_vars

\* a redirect has been answered 404 for a record that expired with a click
\* on it and is still in the registry, beside a second record
C31_Witness ==
  /\ IsRedirectRequest(resp)
  /\ resp.status = 404
  /\ resp.path[1] \in DOMAIN urls
  /\ analytics[resp.path[1]].totalClicks > 0
  /\ Cardinality(DOMAIN urls) = 2

====
